---- MODULE Spec2Model ----
(***************************************************************************)
(* Model of src/vcd_parser_axi.py: the line-oriented VCD parser parse_vcd  *)
(* and the name lookup of its consumers.  Python strings are modelled as   *)
(* sequences of one-character strings, so that strip, split, startswith,   *)
(* indexing and int() are computed as the interpreter computes them.       *)
(***************************************************************************)
EXTENDS Integers, Sequences, FiniteSets, TLC

\* Number of lines of the input file that a run reads at most.
MaxLines == 6

----------------------------------------------------------------------------
\* Python string primitives used by parse_vcd

\* The value None (a one-element tuple that is no character sequence).
None == <<"None">>

\* Characters str.strip() and str.split() treat as whitespace.
Whitespace == {" ", "\t", "\n"}

Digits == <<"0", "1", "2", "3", "4", "5", "6", "7", "8", "9">>

IsDigit(c) == \E i \in 1..10 : Digits[i] = c

DigitVal(c) == (CHOOSE i \in 1..10 : Digits[i] = c) - 1

RECURSIVE lstrip(_)
lstrip(s) ==
    IF s = <<>> THEN s
    ELSE IF Head(s) \in Whitespace THEN lstrip(Tail(s)) ELSE s

RECURSIVE rstrip(_)
rstrip(s) ==
    IF s = <<>> THEN s
    ELSE IF s[Len(s)] \in Whitespace THEN rstrip(SubSeq(s, 1, Len(s) - 1)) ELSE s

\* str.strip(): remove whitespace from both ends
strip(s) == rstrip(lstrip(s))

\* str.startswith(prefix)
startswith(s, p) == Len(s) >= Len(p) /\ SubSeq(s, 1, Len(p)) = p

RECURSIVE splitFrom(_, _, _)
splitFrom(s, cur, acc) ==
    IF s = <<>> THEN (IF cur = <<>> THEN acc ELSE Append(acc, cur))
    ELSE IF Head(s) \in Whitespace
         THEN splitFrom(Tail(s), <<>>, IF cur = <<>> THEN acc ELSE Append(acc, cur))
         ELSE splitFrom(Tail(s), Append(cur, Head(s)), acc)

\* str.split(): the maximal runs of non-whitespace characters, in order
split(s) == splitFrom(s, <<>>, <<>>)

\* The digits-and-underscores part of an integer literal accepted by int():
\* digits, single underscores only between two digits.
IntBody(b) ==
    /\ b # <<>>
    /\ \A i \in 1..Len(b) : IsDigit(b[i]) \/ b[i] = "_"
    /\ IsDigit(b[1]) /\ IsDigit(b[Len(b)])
    /\ \A i \in 1..(Len(b) - 1) : ~(b[i] = "_" /\ b[i + 1] = "_")

RECURSIVE IntValue(_, _)
IntValue(b, acc) ==
    IF b = <<>> THEN acc
    ELSE IF Head(b) = "_" THEN IntValue(Tail(b), acc)
         ELSE IntValue(Tail(b), 10 * acc + DigitVal(Head(b)))

\* int(s): ok = FALSE stands for ValueError
int(s) ==
    LET t      == strip(s)
        signed == t # <<>> /\ t[1] \in {"+", "-"}
        body   == IF signed THEN Tail(t) ELSE t
        mag    == IntValue(body, 0)
    IN  IF IntBody(body)
        THEN [ok |-> TRUE, val |-> IF signed /\ t[1] = "-" THEN 0 - mag ELSE mag]
        ELSE [ok |-> FALSE, val |-> 0]

\* bool(s) of a string or None
Truthy(s) == s # None /\ s # <<>>

----------------------------------------------------------------------------
\* The dict `signals` (insertion ordered) and the defaultdict `timeline`

\* symbol in signals
InSignals(sigs, symbol) == \E i \in 1..Len(sigs) : sigs[i].symbol = symbol

IndexOf(sigs, symbol) == CHOOSE i \in 1..Len(sigs) : sigs[i].symbol = symbol

\* Mutation of SetSignal: a declaration of a known symbol keeps its history
SetSignal_KeepHistory(sigs, symbol, info) ==
    LET entry == [symbol |-> symbol, name |-> info.name, width |-> info.width,
                  type |-> info.type, values |-> info.values]
    IN  IF InSignals(sigs, symbol)
        THEN [sigs EXCEPT ![IndexOf(sigs, symbol)] =
                 [entry EXCEPT !.values = sigs[IndexOf(sigs, symbol)].values]]
        ELSE Append(sigs, entry)

\* signals[symbol] = {...}: an existing key keeps its position in the
\* insertion order, a new key goes to the end
SetSignal(sigs, symbol, info) ==
    LET entry == [symbol |-> symbol, name |-> info.name, width |-> info.width,
                  type |-> info.type, values |-> info.values]
    IN  IF InSignals(sigs, symbol)
        THEN [sigs EXCEPT ![IndexOf(sigs, symbol)] = entry]
        ELSE Append(sigs, entry)

\* Mutation of AppendValue: the entry goes to the front of the history
AppendValue_Front(sigs, symbol, entry) ==
    [sigs EXCEPT ![IndexOf(sigs, symbol)].values = <<entry>> \o @]

\* Mutation of AppendValue: a change at the time of the last entry replaces
\* that entry (changes sharing a timestamp are merged)
AppendValue_Merge(sigs, symbol, entry) ==
    [sigs EXCEPT ![IndexOf(sigs, symbol)].values =
        IF @ # <<>> /\ @[Len(@)][1] = entry[1]
        THEN [@ EXCEPT ![Len(@)] = entry]
        ELSE Append(@, entry)]

\* signals[symbol]['values'].append(entry)
AppendValue(sigs, symbol, entry) ==
    [sigs EXCEPT ![IndexOf(sigs, symbol)].values = Append(@, entry)]

\* Mutation of AppendTimeline: the entry goes to the front of the bucket
AppendTimeline_Front(tl, t, entry) ==
    IF t \in DOMAIN tl
    THEN [tl EXCEPT ![t] = <<entry>> \o @]
    ELSE (t :> <<entry>>) @@ tl

\* timeline[t].append(entry): the defaultdict creates the bucket on first access
AppendTimeline(tl, t, entry) ==
    IF t \in DOMAIN tl
    THEN [tl EXCEPT ![t] = Append(@, entry)]
    ELSE (t :> <<entry>>) @@ tl

----------------------------------------------------------------------------
\* Input: the lines a VCD file may hold

SP == <<" ">>

kwVar == <<"$", "v", "a", "r">>

kwEnddefinitions ==
    <<"$", "e", "n", "d", "d", "e", "f", "i", "n", "i", "t", "i", "o", "n", "s">>

kwEnd == <<"$", "e", "n", "d">>

wire == <<"w", "i", "r", "e">>

reg == <<"r", "e", "g">>

clk == <<"c", "l", "k">>

m_data == <<"m", "_", "d", "a", "t", "a">>

\* $var wire 1 ! clk $end
DeclClk == kwVar \o SP \o wire \o SP \o <<"1">> \o SP \o <<"!">> \o SP \o clk \o SP \o kwEnd

\* $var reg 8 ! m_data $end   (the symbol of DeclClk again)
DeclData == kwVar \o SP \o reg \o SP \o <<"8">> \o SP \o <<"!">> \o SP \o m_data \o SP \o kwEnd

\* $var reg 2 % clk   (another symbol, the name of DeclClk again, no $end)
DeclClk2 == kwVar \o SP \o reg \o SP \o <<"2">> \o SP \o <<"%">> \o SP \o clk

\* $var wire 1 !   (four fields)
DeclShort == kwVar \o SP \o wire \o SP \o <<"1">> \o SP \o <<"!">>

\* $var wire abc ! clk $end   (width is no integer)
DeclBadWidth ==
    kwVar \o SP \o wire \o SP \o <<"a", "b", "c">> \o SP \o <<"!">> \o SP \o clk \o SP \o kwEnd

\* $var wire 0 ! clk $end   (width is an integer, but not a positive one)
DeclZeroWidth ==
    kwVar \o SP \o wire \o SP \o <<"0">> \o SP \o <<"!">> \o SP \o clk \o SP \o kwEnd

\* $enddefinitions $end
EndDefs == kwEnddefinitions \o SP \o kwEnd

\* $scope module top $end
Scope == <<"$", "s", "c", "o", "p", "e">> \o SP \o <<"t", "o", "p">> \o SP \o kwEnd

Lines ==
    { DeclClk, DeclData, DeclClk2, DeclShort, DeclBadWidth, DeclZeroWidth,
      EndDefs, Scope,
      <<"#", "5">>, <<"#", "3">>, <<"#", "a", "b", "c">>, <<"#", "-", "5">>,
      <<"1", "!">>, <<"0", "!">>, <<"x", "!">>, <<"X", "!">>,
      <<"z", "!">>, <<"Z", "!">>, <<"1", "%">>, <<"1", "$">>, <<"1">>,
      <<" ", "0", "!", " ", "\n">>,
      <<"b", "1", "0", "1", " ", "!">>, <<"b", "1", "0", "1">>,
      <<"b", "1", " ", "\t", "%", " ", "!">>, <<"b", "0", " ", "$">>,
      <<"r", "1", ".", "5", " ", "!">>, <<>> }

----------------------------------------------------------------------------
\* parse_vcd

VARIABLES signals, timeline, current_time, in_definitions, line, nread, pc, error, f,
          analysis, plot

vars ==
    <<signals, timeline, current_time, in_definitions, line, nread, pc, error, f,
      analysis, plot>>

\* The exception a statement raises: the later statements of the loop body
\* are not executed
Raise(st, exc) == [st EXCEPT !.error = exc]

\* if line.startswith('$var'): ... signals[symbol] = {...}
ParseDefinition(st, ln) ==
    IF st.error # "none" \/ ~startswith(ln, kwVar) THEN st
    ELSE LET parts == split(ln)
         IN  IF Len(parts) < 3 THEN Raise(st, "IndexError")
             ELSE IF ~int(parts[3]).ok THEN Raise(st, "ValueError")
             ELSE IF Len(parts) < 5 THEN Raise(st, "IndexError")
             ELSE [st EXCEPT !.signals =
                      SetSignal(@, parts[4],
                                [name |-> parts[5], width |-> int(parts[3]).val,
                                 type |-> parts[2], values |-> <<>>])]

\* Mutation of MarkEndDefinitions: the marker toggles the phase
MarkEndDefinitions_Toggle(st, ln) ==
    IF st.error # "none" \/ ~startswith(ln, kwEnddefinitions) THEN st
    ELSE [st EXCEPT !.in_definitions = ~@]

\* Mutation of MarkEndDefinitions: every line that begins with $ ends the
\* definitions
MarkEndDefinitions_AnyDirective(st, ln) ==
    IF st.error # "none" \/ ~startswith(ln, <<"$">>) THEN st
    ELSE [st EXCEPT !.in_definitions = FALSE]

\* if line.startswith('$enddefinitions'): in_definitions = False
MarkEndDefinitions(st, ln) ==
    IF st.error # "none" \/ ~startswith(ln, kwEnddefinitions) THEN st
    ELSE [st EXCEPT !.in_definitions = FALSE]

\* Mutation of ParseTimestamp: the phase is not tested
ParseTimestamp_AnyPhase(st, ln) ==
    IF st.error # "none" \/ ~startswith(ln, <<"#">>) THEN st
    ELSE IF ~int(Tail(ln)).ok THEN Raise(st, "ValueError")
    ELSE [st EXCEPT !.current_time = int(Tail(ln)).val]

\* if line.startswith('#') and not in_definitions: current_time = int(line[1:])
ParseTimestamp(st, ln) ==
    IF st.error # "none" \/ ~startswith(ln, <<"#">>) \/ st.in_definitions THEN st
    ELSE IF ~int(Tail(ln)).ok THEN Raise(st, "ValueError")
    ELSE [st EXCEPT !.current_time = int(Tail(ln)).val]

\* line[0] in '01xX'
ScalarChars == {"0", "1", "x", "X"}

\* Mutation of Decode: the vector value keeps its 'b' prefix
Decode_KeepPrefix(ln) ==
    IF Len(ln) >= 2 /\ ln[1] \in ScalarChars
    THEN [symbol |-> Tail(ln), value |-> <<ln[1]>>]
    ELSE IF startswith(ln, <<"b">>)
    THEN LET parts == split(ln)
         IN  [symbol |-> IF Len(parts) > 1 THEN parts[2] ELSE None,
              value  |-> parts[1]]
    ELSE [symbol |-> None, value |-> None]

\* Case 1 / Case 2 of the value-change block: the (symbol, value) of a line
Decode(ln) ==
    IF Len(ln) >= 2 /\ ln[1] \in ScalarChars
    THEN [symbol |-> Tail(ln), value |-> <<ln[1]>>]
    ELSE IF startswith(ln, <<"b">>)
    THEN LET parts == split(ln)
         IN  [symbol |-> IF Len(parts) > 1 THEN parts[2] ELSE None,
              value  |-> Tail(parts[1])]
    ELSE [symbol |-> None, value |-> None]

\* Mutation of Record: the bucket timeline[current_time] is looked up before
\* the symbol is tested, so the defaultdict creates it for an orphan too
Record_EagerBucket(st, symbol, value) ==
    IF Truthy(symbol) /\ InSignals(st.signals, symbol)
    THEN [st EXCEPT !.signals = AppendValue(@, symbol, <<st.current_time, value>>),
                    !.timeline = AppendTimeline(@, st.current_time, <<symbol, value>>)]
    ELSE [st EXCEPT !.timeline =
             IF st.current_time \in DOMAIN @ THEN @ ELSE (st.current_time :> <<>>) @@ @]

\* if symbol and symbol in signals: append to the history and to the bucket
Record(st, symbol, value) ==
    IF Truthy(symbol) /\ InSignals(st.signals, symbol)
    THEN [st EXCEPT !.signals = AppendValue(@, symbol, <<st.current_time, value>>),
                    !.timeline = AppendTimeline(@, st.current_time, <<symbol, value>>)]
    ELSE st

\* if not in_definitions and not line.startswith(('$', '#')) and line: ...
ParseValueChange(st, ln) ==
    IF \/ st.error # "none"
       \/ st.in_definitions
       \/ startswith(ln, <<"$">>) \/ startswith(ln, <<"#">>)
       \/ ln = <<>>
    THEN st
    ELSE Record(st, Decode(ln).symbol, Decode(ln).value)

\* One iteration of `for line in f`, on the stripped line
ProcessLine(st, ln) ==
    ParseValueChange(ParseTimestamp(MarkEndDefinitions(ParseDefinition(st, ln), ln), ln), ln)

Locals ==
    [signals |-> signals, timeline |-> timeline, current_time |-> current_time,
     in_definitions |-> in_definitions, error |-> "none"]

Init ==
    /\ signals = <<>>
    /\ timeline = <<>>
    /\ current_time = 0
    /\ in_definitions = TRUE
    /\ line = <<>>
    /\ nread = 0
    /\ pc = "reading"
    /\ error = "none"
    /\ f = "open"
    /\ analysis = <<>>
    /\ plot = <<>>

\* Mutation of ExitWith: the file is closed by a statement after the loop,
\* which an exception skips
ExitWith_CloseAtEnd(exc) == IF exc = "none" THEN "closed" ELSE "open"

\* Leaving the block `with open(filename, 'r') as f:`, normally or by the
\* exception exc, closes f
ExitWith(exc) == "closed"

\* The loop reads the raw line l, strips it and runs the four checks; an
\* exception leaves the loop and the function
ReadLine(l) ==
    /\ pc = "reading"
    /\ nread < MaxLines
    /\ LET st == ProcessLine(Locals, strip(l))
       IN  /\ line' = strip(l)
           /\ nread' = nread + 1
           /\ signals' = st.signals
           /\ timeline' = st.timeline
           /\ current_time' = st.current_time
           /\ in_definitions' = st.in_definitions
           /\ error' = st.error
           /\ pc' = IF st.error = "none" THEN "reading" ELSE "raised"
           /\ f' = IF st.error = "none" THEN f ELSE ExitWith(st.error)
           /\ UNCHANGED <<analysis, plot>>

\* Reading the next line fails (the iterator of f raises, for instance
\* UnicodeDecodeError or OSError): the exception leaves the loop and the
\* function
ReadFails ==
    /\ pc = "reading"
    /\ pc' = "raised"
    /\ error' = "OSError"
    /\ f' = ExitWith("OSError")
    /\ UNCHANGED <<signals, timeline, current_time, in_definitions, line, nread,
                   analysis, plot>>

\* The file is exhausted: return signals, timeline
EndOfFile ==
    /\ pc = "reading"
    /\ pc' = "returned"
    /\ f' = ExitWith("none")
    /\ UNCHANGED <<signals, timeline, current_time, in_definitions, line, nread, error,
                   analysis, plot>>

----------------------------------------------------------------------------
\* analyze_signal, plot_waveforms: the lookup of a signal by its name

RECURSIVE LookupFrom(_, _, _)
LookupFrom(sigs, name, i) ==
    IF i > Len(sigs) THEN None
    ELSE IF sigs[i].name = name THEN sigs[i]
    ELSE LookupFrom(sigs, name, i + 1)

RECURSIVE LookupBack(_, _, _)
LookupBack(sigs, name, i) ==
    IF i < 1 THEN None
    ELSE IF sigs[i].name = name THEN sigs[i]
    ELSE LookupBack(sigs, name, i - 1)

\* Mutation of Lookup: the scan keeps the last match (no break)
Lookup_Last(sigs, name) == LookupBack(sigs, name, Len(sigs))

\* for symbol, info in signal_data.items(): first info whose name matches,
\* None when there is none
Lookup(sigs, name) == LookupFrom(sigs, name, 1)

\* signal_info is not None (a dict with four keys is truthy)
Found(sigs, name) == \E i \in 1..Len(sigs) : sigs[i].name = name

UpperCase ==
    <<"A", "B", "C", "D", "E", "F", "G", "H", "I", "J", "K", "L", "M",
      "N", "O", "P", "Q", "R", "S", "T", "U", "V", "W", "X", "Y", "Z">>

LowerCase ==
    <<"a", "b", "c", "d", "e", "f", "g", "h", "i", "j", "k", "l", "m",
      "n", "o", "p", "q", "r", "s", "t", "u", "v", "w", "x", "y", "z">>

\* str.lower()
lower(s) ==
    [i \in 1..Len(s) |->
        IF \E k \in 1..26 : UpperCase[k] = s[i]
        THEN LowerCase[CHOOSE k \in 1..26 : UpperCase[k] = s[i]]
        ELSE s[i]]

\* sub in s
contains(sub, s) ==
    \E i \in 0..(Len(s) - Len(sub)) : SubSeq(s, i + 1, i + Len(sub)) = sub

\* [t for t, v in values if v == '1']
RECURSIVE RisingEdges(_)
RisingEdges(values) ==
    IF values = <<>> THEN <<>>
    ELSE IF values[1][2] = <<"1">>
         THEN <<values[1][1]>> \o RisingEdges(Tail(values))
         ELSE RisingEdges(Tail(values))

\* Mutation of ClockPeriod: the two rising edges are subtracted the other way
ClockPeriod_Reversed(info, signal_name) ==
    IF contains(clk, lower(signal_name)) /\ Len(info.values) >= 3
    THEN LET rising_edges == RisingEdges(info.values)
         IN  IF Len(rising_edges) >= 2
             THEN LET period == rising_edges[1] - rising_edges[2]
                  IN  [period |-> <<period>>,
                       error |-> IF period = 0 THEN "ZeroDivisionError" ELSE "none"]
             ELSE [period |-> <<>>, error |-> "none"]
    ELSE [period |-> <<>>, error |-> "none"]

\* The clock block of analyze_signal on a found signal: period holds the
\* value assigned to `period` when line 142 is executed, error the exception
\* of the division 1e6 / period
ClockPeriod(info, signal_name) ==
    IF contains(clk, lower(signal_name)) /\ Len(info.values) >= 3
    THEN LET rising_edges == RisingEdges(info.values)
         IN  IF Len(rising_edges) >= 2
             THEN LET period == rising_edges[2] - rising_edges[1]
                  IN  [period |-> <<period>>,
                       error |-> IF period = 0 THEN "ZeroDivisionError" ELSE "none"]
             ELSE [period |-> <<>>, error |-> "none"]
    ELSE [period |-> <<>>, error |-> "none"]

\* analyze_signal(signal_data, signal_name): what it reports
analyze_signal(signal_data, signal_name) ==
    IF ~Found(signal_data, signal_name)
    THEN [name |-> signal_name, not_found |-> TRUE, transitions |-> 0,
          period |-> <<>>, error |-> "none"]
    ELSE LET signal_info == Lookup(signal_data, signal_name)
             clock == ClockPeriod(signal_info, signal_name)
         IN  [name |-> signal_name, not_found |-> FALSE,
              transitions |-> Len(signal_info.values),
              period |-> clock.period, error |-> clock.error]

\* The digits-and-underscores part of a base 2 literal accepted by int(s, 2)
BinBody(b) ==
    /\ b # <<>>
    /\ \A i \in 1..Len(b) : b[i] \in {"0", "1", "_"}
    /\ b[1] # "_" /\ b[Len(b)] # "_"
    /\ \A i \in 1..(Len(b) - 1) : ~(b[i] = "_" /\ b[i + 1] = "_")

RECURSIVE BinValue(_, _)
BinValue(b, acc) ==
    IF b = <<>> THEN acc
    ELSE IF Head(b) = "_" THEN BinValue(Tail(b), acc)
         ELSE BinValue(Tail(b), 2 * acc + DigitVal(Head(b)))

\* try: int(value, 2) except: 0
int2(value) ==
    LET t        == strip(value)
        signed   == t # <<>> /\ t[1] \in {"+", "-"}
        unsigned == IF signed THEN Tail(t) ELSE t
        prefixed == Len(unsigned) >= 2 /\ unsigned[1] = "0" /\ unsigned[2] \in {"b", "B"}
        rest     == IF prefixed THEN Tail(Tail(unsigned)) ELSE unsigned
        body     == IF prefixed /\ rest # <<>> /\ rest[1] = "_" THEN Tail(rest) ELSE rest
        mag      == BinValue(body, 0)
    IN  IF BinBody(body)
        THEN (IF signed /\ t[1] = "-" THEN 0 - mag ELSE mag)
        ELSE 0

\* The loop `for time, value in signal_info['values']` of plot_waveforms:
\* the (time, level) points up to the first time beyond max_time
RECURSIVE Points(_, _, _)
Points(values, width, max_time) ==
    IF values = <<>> THEN <<>>
    ELSE IF max_time # 0 /\ values[1][1] > max_time THEN <<>>
    ELSE << <<values[1][1],
              IF width > 1 THEN int2(values[1][2])
              ELSE IF values[1][2] = <<"1">> THEN 1 ELSE 0>> >>
         \o Points(Tail(values), width, max_time)

\* plot_waveforms(signals, signal_names, max_time): one entry per requested
\* name, in order; a name that is not found is passed over by `continue`
\* with its axis left empty and nothing printed.  max_time = 0 stands for
\* None (both are falsy).
RECURSIVE plot_waveforms(_, _, _)
plot_waveforms(sigs, signal_names, max_time) ==
    IF signal_names = <<>> THEN <<>>
    ELSE LET signal_name == Head(signal_names)
         IN  << IF ~Found(sigs, signal_name)
                THEN [name |-> signal_name, drawn |-> FALSE, reported |-> FALSE,
                      points |-> <<>>]
                ELSE [name |-> signal_name, drawn |-> TRUE, reported |-> FALSE,
                      points |-> Points(Lookup(sigs, signal_name).values,
                                        Lookup(sigs, signal_name).width, max_time)] >>
             \o plot_waveforms(sigs, Tail(signal_names), max_time)

\* The names main() asks for that the input lines can declare
Names == {clk, m_data}

\* The lists of names and the cut-off times plot_waveforms is called with
NameLists == {<<m_data, clk>>}

MaxTimes == {0, 4}

\* A caller passes the registry parse_vcd returned to analyze_signal
AnalyzeSignal(signal_name) ==
    /\ pc = "returned"
    /\ pc' = "analyzed"
    /\ analysis' = <<analyze_signal(signals, signal_name)>>
    /\ UNCHANGED <<signals, timeline, current_time, in_definitions, line, nread,
                   error, f, plot>>

\* A caller passes the registry parse_vcd returned to plot_waveforms
PlotWaveforms(signal_names, max_time) ==
    /\ pc = "returned"
    /\ pc' = "plotted"
    /\ plot' = plot_waveforms(signals, signal_names, max_time)
    /\ UNCHANGED <<signals, timeline, current_time, in_definitions, line, nread,
                   error, f, analysis>>

Next ==
    \/ \E l \in Lines : ReadLine(l)
    \/ ReadFails
    \/ EndOfFile
    \/ \E signal_name \in Names : AnalyzeSignal(signal_name)
    \/ \E signal_names \in NameLists : \E max_time \in MaxTimes :
          PlotWaveforms(signal_names, max_time)

Spec == Init /\ [][Next]_vars

----------------------------------------------------------------------------
\* Properties

\* signals[symbol]['values']
History(sigs, symbol) == sigs[IndexOf(sigs, symbol)].values

\* The bucket of time t, empty when the key is absent
Bucket(tl, t) == IF t \in DOMAIN tl THEN tl[t] ELSE <<>>

\* The step reads one line and the loop goes on
LineDone == nread' = nread + 1 /\ pc' = "reading"

\* The step reads one line (whether or not the loop goes on)
LineRead == nread' = nread + 1

\* The line read by the step is examined by the value-change block
ChangeLine ==
    /\ ~in_definitions
    /\ line' # <<>>
    /\ ~startswith(line', <<"$">>) /\ ~startswith(line', <<"#">>)

\* The step appends (current_time', value) to the history of symbol and
\* (symbol, value) to the bucket of current_time', and nothing else
Recorded(symbol, value) ==
    /\ InSignals(signals', symbol)
    /\ History(signals', symbol) = Append(History(signals, symbol), <<current_time', value>>)
    /\ Len(signals') = Len(signals)
    /\ \A i \in 1..Len(signals) :
          signals[i].symbol # symbol => signals'[i] = signals[i]
    /\ DOMAIN timeline' = DOMAIN timeline \cup {current_time'}
    /\ timeline'[current_time'] = Append(Bucket(timeline, current_time'), <<symbol, value>>)
    /\ \A t \in DOMAIN timeline : t # current_time' => timeline'[t] = timeline[t]

\* C1: current_time starts at 0 and is the value of the latest timestamp line
\* read in the ValueChanges phase; every line read in that phase that is
\* decoded to a (symbol, value) pair with a declared symbol appends exactly
\* (current_time, value) at the end of that signal's history and
\* (symbol, value) at the end of the Timeline bucket of current_time, so both
\* keep file order.
C1_DualAppend ==
    /\ current_time = 0
    /\ [][LineDone =>
            /\ current_time' =
                 IF ~in_definitions /\ startswith(line', <<"#">>)
                 THEN int(Tail(line')).val ELSE current_time
            /\ (ChangeLine /\ Truthy(Decode(line').symbol)
                  /\ InSignals(signals, Decode(line').symbol))
               => Recorded(Decode(line').symbol, Decode(line').value)]_vars

\* Two changes of declared signals recorded at time 5, the second one by the
\* line just read
C1_Witness ==
    /\ pc = "reading" /\ ~in_definitions /\ current_time = 5
    /\ line = <<"1", "%">>
    /\ InSignals(signals, <<"%">>) /\ InSignals(signals, <<"!">>)
    /\ History(signals, <<"%">>) = << <<5, <<"1">>>> >>
    /\ Bucket(timeline, 5) = << <<(<<"!">>), <<"0">>>>, <<(<<"%">>), <<"1">>>> >>

\* C4: a line read in the ValueChanges phase and decoded in scalar or vector
\* form to a symbol that is not in the registry raises nothing and leaves the
\* registry, the Timeline with its set of keys, current_time and the phase
\* as they were.
C4_OrphanDropped ==
    [][(LineRead /\ ChangeLine /\ Decode(line').symbol # None
          /\ ~InSignals(signals, Decode(line').symbol))
       => /\ pc' = "reading"
          /\ signals' = signals
          /\ timeline' = timeline /\ DOMAIN timeline' = DOMAIN timeline
          /\ current_time' = current_time
          /\ in_definitions' = in_definitions]_vars

\* The orphan line 1$ has been read at a time that has no bucket, while a
\* signal is declared and another time has one
C4_Witness ==
    /\ pc = "reading" /\ ~in_definitions
    /\ line = <<"1", "$">>
    /\ Len(signals) > 0
    /\ DOMAIN timeline # {} /\ current_time \notin DOMAIN timeline

\* The line read by the step is a declaration line with at least five fields
\* and an integer width
ValidDeclaration ==
    /\ startswith(line', kwVar)
    /\ Len(split(line')) >= 5
    /\ int(split(line')[3]).ok

\* The line read by the step is a declaration line with fewer than five
\* fields or a width that is no integer
MalformedDeclaration == startswith(line', kwVar) /\ ~ValidDeclaration

\* The line read by the step has none of the recognized forms
Unrecognized ==
    /\ ~startswith(line', kwVar)
    /\ ~startswith(line', kwEnddefinitions)
    /\ ~startswith(line', <<"#">>)
    /\ ~(Len(line') >= 2 /\ line'[1] \in {"0", "1", "x", "X", "z", "Z"})
    /\ ~startswith(line', <<"b">>)

\* C2: no line aborts the parse (every line read leaves the loop running,
\* whatever its form), and a line of no recognized form changes neither the
\* phase, current_time, the registry nor the Timeline.
C2_NoLineAborts ==
    [][LineRead =>
         /\ pc' = "reading"
         /\ Unrecognized => UNCHANGED <<signals, timeline, current_time, in_definitions>>]_vars

\* C3: a declaration line with fewer than five fields or a non-integer width
\* is skipped: the parse goes on with the next line and the registry, the
\* Timeline, the phase and current_time are unchanged.
C3_MalformedDeclarationSkipped ==
    [][(LineRead /\ MalformedDeclaration) =>
         /\ pc' = "reading"
         /\ UNCHANGED <<signals, timeline, current_time, in_definitions>>]_vars

\* C5: a valid declaration of a symbol that is already in the registry, in
\* either phase, replaces its name, width and kind by those of the line and
\* empties its history; the records of the other symbols, and the order of
\* the registry, are unchanged.
C5_Redeclaration ==
    [][(LineRead /\ ValidDeclaration /\ InSignals(signals, split(line')[4])) =>
         LET parts == split(line')
             i     == IndexOf(signals, parts[4])
         IN  /\ pc' = "reading"
             /\ Len(signals') = Len(signals)
             /\ signals'[i] = [symbol |-> parts[4], name |-> parts[5],
                               width |-> int(parts[3]).val, type |-> parts[2],
                               values |-> <<>>]
             /\ \A j \in 1..Len(signals) : j # i => signals'[j] = signals[j]]_vars

\* The symbol ! has just been declared again, in the ValueChanges phase, as
\* m_data of width 8: its history is empty although changes of ! were
\* recorded (they are still in the Timeline)
C5_Witness ==
    /\ pc = "reading" /\ ~in_definitions
    /\ line = DeclData
    /\ InSignals(signals, <<"!">>)
    /\ History(signals, <<"!">>) = <<>>
    /\ signals[IndexOf(signals, <<"!">>)].name = m_data
    /\ signals[IndexOf(signals, <<"!">>)].width = 8
    /\ \E t \in DOMAIN timeline : \E k \in 1..Len(timeline[t]) : timeline[t][k][1] = <<"!">>

\* A history is non-decreasing in time
NonDecreasing(h) == \A i \in 1..(Len(h) - 1) : h[i][1] <= h[i + 1][1]

\* C6 as stated: in every reachable state, whatever the timestamp lines,
\* every signal's history is non-decreasing in time.
C6_HistoryNonDecreasing ==
    \A i \in 1..Len(signals) : NonDecreasing(signals[i].values)

\* Every history is non-decreasing in time and ends no later than
\* current_time
Ordered ==
    \A i \in 1..Len(signals) :
        /\ NonDecreasing(signals[i].values)
        /\ signals[i].values # <<>> =>
              signals[i].values[Len(signals[i].values)][1] <= current_time

\* C6 amended: histories are non-decreasing in time as long as no timestamp
\* line lowers current_time: they are so initially, and every step that does
\* not lower current_time keeps every history non-decreasing (and ending no
\* later than current_time).
C6_NonDecreasingUnlessLowered ==
    /\ Ordered
    /\ [][(Ordered /\ current_time' >= current_time) => Ordered']_vars

\* A history with entries at the times 3 and 5
C6_Witness ==
    /\ pc = "reading"
    /\ InSignals(signals, <<"!">>)
    /\ Len(History(signals, <<"!">>)) = 2
    /\ History(signals, <<"!">>)[1][1] = 3
    /\ History(signals, <<"!">>)[2][1] = 5

\* The line read by the step is a valid declaration of symbol
Declares(symbol) == ValidDeclaration /\ split(line')[4] = symbol

\* C7: a history is append-only and in file order: a step that is no
\* declaration of the symbol leaves its history unchanged or adds one entry
\* at its end, and that entry carries the current time.
C7_AppendOnly ==
    [][\A i \in 1..Len(signals) :
         LET symbol == signals[i].symbol
         IN  ~(LineRead /\ Declares(symbol)) =>
               /\ InSignals(signals', symbol)
               /\ \/ History(signals', symbol) = signals[i].values
                  \/ \E v \in {Decode(line').value} :
                        History(signals', symbol) =
                            Append(signals[i].values, <<current_time', v>>)]_vars

\* Two changes at one timestamp followed by one at a later timestamp, in file
\* order
C7_Witness ==
    /\ pc = "reading"
    /\ InSignals(signals, <<"!">>)
    /\ History(signals, <<"!">>) =
          << <<0, <<"1">>>>, <<0, <<"0">>>>, <<5, <<"1">>>> >>

\* The signal that a lookup by the declared name returns after the step has
\* the width and kind of the declaration line and an empty history
LookupReturnsDeclared ==
    LET parts == split(line')
        found == Lookup(signals', parts[5])
    IN  /\ \E i \in 1..Len(signals') : signals'[i].name = parts[5]
        /\ found.width = int(parts[3]).val
        /\ found.type = parts[2]
        /\ found.values = <<>>

\* C8 as stated: after every valid declaration line, in any registry state,
\* a lookup by the declared name returns a signal with the width and kind of
\* that declaration and an empty history.
C8_LookupAfterDeclare ==
    [][(LineRead /\ ValidDeclaration) => (pc' = "reading" /\ LookupReturnsDeclared)]_vars

\* No entry that precedes the entry of symbol in the registry carries name
FirstOfName(sigs, symbol, name) ==
    \A j \in 1..Len(sigs) : j < IndexOf(sigs, symbol) => sigs[j].name # name

\* C8 amended: after a valid declaration line, a lookup by the declared name
\* returns a signal with the width and kind of that declaration and an empty
\* history, provided no entry that precedes the declared symbol's entry in
\* the registry order carries the same name.
C8_LookupAfterFirstOfName ==
    [][(LineRead /\ ValidDeclaration
          /\ InSignals(signals', split(line')[4])
          /\ FirstOfName(signals', split(line')[4], split(line')[5]))
       => (pc' = "reading" /\ LookupReturnsDeclared)]_vars

\* % has just been declared again as clk while !, declared after it, is
\* named clk too: the lookup of clk returns the record of %
C8_Witness ==
    /\ pc = "reading"
    /\ line = DeclClk2
    /\ Len(signals) = 2
    /\ signals[1].symbol = <<"%">> /\ signals[1].name = clk
    /\ signals[2].symbol = <<"!">> /\ signals[2].name = clk
    /\ Lookup(signals, clk) = signals[1]
    /\ signals[1].width = 2 /\ signals[1].values = <<>>

\* C9: in the ValueChanges phase a line of length >= 2 whose first character
\* is one of 0 1 x X z Z and whose rest is a declared symbol appends
\* (current_time, first character) to the history of that symbol and
\* (symbol, first character) to the bucket of current_time.
C9_ScalarSixValues ==
    [][(LineRead /\ ChangeLine /\ Len(line') >= 2
          /\ line'[1] \in {"0", "1", "x", "X", "z", "Z"}
          /\ InSignals(signals, Tail(line')))
       => (pc' = "reading" /\ Recorded(Tail(line'), <<line'[1]>>))]_vars

\* C10: in the ValueChanges phase a line that begins with b is split on
\* whitespace; with a second token that is a declared symbol, the first token
\* without its leading b is recorded, as it stands, in that symbol's history
\* and in the bucket of current_time; with no second token the line raises
\* nothing and changes neither a history nor the Timeline.
C10_VectorForm ==
    [][(LineRead /\ ChangeLine /\ startswith(line', <<"b">>)) =>
         LET parts == split(line')
         IN  /\ pc' = "reading"
             /\ (Len(parts) > 1 /\ InSignals(signals, parts[2]))
                  => Recorded(parts[2], Tail(parts[1]))
             /\ Len(parts) = 1 => UNCHANGED <<signals, timeline>>]_vars

\* The line b101 ! has recorded the value 101 for the 8 bit signal m_data
C10_Witness ==
    /\ pc = "reading"
    /\ line = <<"b", "1", "0", "1", " ", "!">>
    /\ InSignals(signals, <<"!">>)
    /\ signals[IndexOf(signals, <<"!">>)].width = 8
    /\ History(signals, <<"!">>) = << <<5, <<"1", "0", "1">>>> >>
    /\ Bucket(timeline, 5) = << <<(<<"!">>), <<"1", "0", "1">>>> >>

\* C11: the phase starts as Definitions, a line that begins with
\* $enddefinitions makes it ValueChanges, and no step makes it Definitions
\* again, whatever lines follow.
C11_PhaseIrreversible ==
    /\ in_definitions = TRUE
    /\ [][/\ ~in_definitions => ~in_definitions'
          /\ (LineDone /\ startswith(line', kwEnddefinitions)) => ~in_definitions']_vars

\* A second $enddefinitions line has been read after a declaration that
\* followed the first one
C11_Witness ==
    /\ pc = "reading" /\ ~in_definitions
    /\ line = EndDefs
    /\ nread >= 3
    /\ Len(signals) > 0

\* C12: while the phase is Definitions no timestamp or value-change line has
\* had an effect: current_time is 0, every history is empty and the Timeline
\* is empty.
C12_DefinitionsPhaseInert ==
    in_definitions =>
        /\ current_time = 0
        /\ timeline = <<>>
        /\ \A i \in 1..Len(signals) : signals[i].values = <<>>

\* The change 1! of a declared signal has been read, after other lines, in
\* the Definitions phase
C12_Witness ==
    /\ pc = "reading" /\ in_definitions
    /\ line = <<"1", "!">>
    /\ nread >= 3
    /\ InSignals(signals, <<"!">>)

\* C13: every signal of the registry has a positive width in every reachable
\* state (a declaration whose width is 0 or negative creates or updates no
\* entry).
C13_WidthPositive == \A i \in 1..Len(signals) : signals[i].width > 0

\* C14: current_time, every key of the Timeline and every time of a history
\* is a non-negative integer in every reachable state (a line such as #-5
\* sets no negative time).
C14_TimesNonNegative ==
    /\ current_time >= 0
    /\ \A t \in DOMAIN timeline : t >= 0
    /\ \A i \in 1..Len(signals) :
          \A k \in 1..Len(signals[i].values) : signals[i].values[k][1] >= 0

\* C15: the file opened by parse_vcd is closed on every exit path: when the
\* function has returned, and when an exception raised while a line was read
\* or processed has left it, f is closed; it is open while lines are read.
C15_FileClosedOnExit ==
    /\ pc \in {"returned", "raised"} => f = "closed"
    /\ pc = "reading" => f = "open"

\* The parse was left by the ValueError of a timestamp line in the
\* ValueChanges phase, and the file is closed
C15_Witness ==
    /\ pc = "raised" /\ error = "ValueError"
    /\ ~in_definitions
    /\ line = <<"#", "a", "b", "c">>
    /\ f = "closed"

\* The history h has '1'-valued entries at the indices i < j and at no other
\* index below j
FirstTwoOnes(h, i, j) ==
    /\ i < j
    /\ h[i][2] = <<"1">> /\ h[j][2] = <<"1">>
    /\ \A k \in 1..(j - 1) : k # i => h[k][2] # <<"1">>

\* analyze_signal was called with a name that is found, that contains clk
\* (whatever the case) and whose signal has at least two '1'-valued entries
\* in a history of at least minEntries entries: the period it computed is
\* the time of the second of them minus the time of the first
PeriodIsComputed(minEntries) ==
    (pc = "analyzed" /\ Found(signals, analysis[1].name)
       /\ contains(clk, lower(analysis[1].name)))
    => LET h == Lookup(signals, analysis[1].name).values
       IN  \A i, j \in 1..Len(h) :
              (FirstTwoOnes(h, i, j) /\ Len(h) >= minEntries)
              => analysis[1].period = <<h[j][1] - h[i][1]>>

\* C16 as stated: for a clock-named signal with at least two '1'-valued
\* history entries, a history of exactly two entries included, the period
\* is computed and is the time of the second '1' minus the time of the
\* first.
C16_ClockPeriod == PeriodIsComputed(2)

\* C16 amended: the same for a clock-named signal whose history has at least
\* three entries, at least two of them '1'-valued.
C16_ClockPeriodThreeEntries == PeriodIsComputed(3)

\* clk rose at 0, fell, and rose again at 5: the period computed is 5
C16_Witness ==
    /\ pc = "analyzed"
    /\ analysis[1].name = clk
    /\ Found(signals, clk)
    /\ Lookup(signals, clk).values = << <<0, <<"1">>>>, <<0, <<"0">>>>, <<5, <<"1">>>> >>
    /\ analysis[1].period = <<5>>

\* C17: a requested name that is absent from the registry is reported as not
\* found and raises nothing, in analyze_signal and in plot_waveforms, and
\* plot_waveforms still draws the other requested names.
C17_LookupMissReported ==
    /\ (pc = "analyzed" /\ ~Found(signals, analysis[1].name))
          => (analysis[1].not_found /\ analysis[1].error = "none")
    /\ pc = "plotted" =>
          \A k \in 1..Len(plot) :
              IF Found(signals, plot[k].name) THEN plot[k].drawn ELSE plot[k].reported

\* The values of the entries of bucket that carry symbol, in order
ValuesOfSymbol(bucket, symbol) ==
    LET IsOf(e) == e[1] = symbol
        sel     == SelectSeq(bucket, IsOf)
    IN  [k \in 1..Len(sel) |-> sel[k][2]]

\* The values of the entries of history that carry the time t, in order
ValuesAtTime(history, t) ==
    LET IsAt(e) == e[1] = t
        sel     == SelectSeq(history, IsAt)
    IN  [k \in 1..Len(sel) |-> sel[k][2]]

IsSuffix(a, b) == Len(a) <= Len(b) /\ SubSeq(b, Len(b) - Len(a) + 1, Len(b)) = a

\* The times that occur as a Timeline key or in a history
AllTimes ==
    DOMAIN timeline \cup
    UNION { {signals[i].values[k][1] : k \in 1..Len(signals[i].values)} :
            i \in 1..Len(signals) }

\* Every symbol that occurs in the Timeline is in the registry
TimelineSymbolsDeclared ==
    \A t \in DOMAIN timeline :
        \A k \in 1..Len(timeline[t]) : InSignals(signals, timeline[t][k][1])

\* C18 as stated: in every reachable state, for every symbol s and time t
\* the values of s in bucket t are the values at t in the history of s, and
\* every symbol of the Timeline is in the registry.
C18_TimelineMatchesHistories ==
    /\ TimelineSymbolsDeclared
    /\ \A i \in 1..Len(signals) : \A t \in AllTimes :
          ValuesOfSymbol(Bucket(timeline, t), signals[i].symbol)
              = ValuesAtTime(signals[i].values, t)

\* C18 amended: in every reachable state, for every symbol s and time t the
\* values at t in the history of s are the last of the values of s in
\* bucket t (those recorded since s was last declared; the Timeline keeps
\* the changes that a later declaration of s removed from the history), and
\* every symbol of the Timeline is in the registry.
C18_HistoriesAreSuffixOfTimeline ==
    /\ TimelineSymbolsDeclared
    /\ \A i \in 1..Len(signals) : \A t \in AllTimes :
          IsSuffix(ValuesAtTime(signals[i].values, t),
                   ValuesOfSymbol(Bucket(timeline, t), signals[i].symbol))

\* ! was declared again after a change at time 0 and has changed twice at
\* time 0 since: the bucket holds three values of !, the history the last two
C18_Witness ==
    /\ pc = "reading"
    /\ InSignals(signals, <<"!">>)
    /\ Len(ValuesAtTime(History(signals, <<"!">>), 0)) = 2
    /\ Len(ValuesOfSymbol(Bucket(timeline, 0), <<"!">>)) = 3
    /\ History(signals, <<"!">>)[1][2] # History(signals, <<"!">>)[2][2]

\* The step declares a signal: the registry grows, or an entry gets another
\* name, width or kind, or loses history entries
DeclareEffect ==
    \/ Len(signals') > Len(signals)
    \/ \E i \in 1..Len(signals) :
          \/ signals'[i].name # signals[i].name
          \/ signals'[i].width # signals[i].width
          \/ signals'[i].type # signals[i].type
          \/ Len(signals'[i].values) < Len(signals[i].values)

\* The step switches the phase
PhaseEffect == in_definitions' # in_definitions

\* The step updates current_time
TimeEffect == current_time' # current_time

\* The step records a value change
RecordEffect ==
    \/ timeline' # timeline
    \/ \E i \in 1..Len(signals) : Len(signals'[i].values) > Len(signals[i].values)

\* C19: the four checks of the loop body are independent ifs, yet a line has
\* the effect of at most one of: declaring a signal, switching the phase,
\* updating current_time, recording a value change; in particular no line
\* both updates current_time and records, or both declares and records.
C19_AtMostOneAction ==
    [][LineRead =>
         (IF DeclareEffect THEN 1 ELSE 0) + (IF PhaseEffect THEN 1 ELSE 0)
           + (IF TimeEffect THEN 1 ELSE 0) + (IF RecordEffect THEN 1 ELSE 0) <= 1]_vars

\* A declaration line read in the ValueChanges phase, at a time other than
\* 0 and with changes recorded, has declared % and done nothing else
C19_Witness ==
    /\ pc = "reading" /\ ~in_definitions
    /\ line = DeclClk2
    /\ current_time = 5
    /\ timeline # <<>>
    /\ InSignals(signals, <<"%">>) /\ History(signals, <<"%">>) = <<>>

\* C20: analyze_signal raises for no registry that parse_vcd returns and no
\* requested name (the period it divides by is never 0).
C20_AnalyzeNeverRaises ==
    pc = "analyzed" => analysis[1].error = "none"

====
